---- MODULE Spec2Model ----
(***************************************************************************)
(* Model of the Active Ports extension (src/src/index.tsx, the main view,  *)
(* and src/unnamed/part_000, the menu-bar widget).                         *)
(*                                                                         *)
(* Strings whose content the code inspects (command lines, the text of a   *)
(* port field) are sequences of one-character strings, so that the regular *)
(* expressions and parseInt are computed character by character.           *)
(* Strings the code only stores and copies (user names, directories,       *)
(* container names) are TLA+ strings.                                      *)
(***************************************************************************)
EXTENDS Integers, Sequences, FiniteSets, TLC

VARIABLES
    \* ---- discovery cycle of the main view (getActivePorts, index.tsx) ----
    pc,              \* position in getActivePorts
    output,          \* outcome of the lsof command: [ok, lines] (output.split("\n"))
    dockerPorts,     \* the Map built by getDockerPorts (empty before it is built)
    idx,             \* index of the next line of the for loop
    currentPid, currentCommand, currentUser,
    portMap,         \* Map<string, PortInfo> in insertion order
    lookups,         \* outcomes of the per-pid lookups, one entry per new port
    result,          \* the array the promise resolves to (when pc = "done")
    \* ---- classification (detectServiceType) ----
    cmdIn,           \* the command string handed to detectServiceType
    flags,           \* <<the ServiceFlags it returned>>, or <<>> before the call
    \* ---- container listing (getDockerPorts) ----
    dockerOut,       \* outcome of the docker ps command: [status, lines]
    dockerMap,       \* the map getDockerPorts returned
    \* ---- menu-bar widget (getActivePorts, part_000) ----
    mpc,             \* position in the widget's getActivePorts
    mOutput,         \* outcome of its lsof command: [ok, lines]
    mIdx,            \* index of the next line of its for loop
    mPortMap,        \* its Map<string, PortInfo> in insertion order
    mResult,         \* the array it returned (when mpc = "done")
    \* ---- restart workflow (Restart*Form.handleSubmit, runSvelteKitPreview) ----
    rpc,             \* position in the workflow
    form,            \* which workflow: "Vite", "FastAPI", "NextJS", "Flask", "SvelteKit"
    info,            \* the PortInfo record the form was opened for
    newPort,         \* text of the port field
    optFlag,         \* the reload / debug checkbox
    killed,          \* "none", "ok", "failed": the kill -9 attempt
    launched,        \* <<the command handed to exec>>, or <<>>
    toast,           \* style and title of the toast shown last
    execCb,          \* "none", "pending", "error", "ok": the exec callback
    events,          \* sequence of the externally visible steps so far
    \* ---- the list view and the hidden-port store (Command, index.tsx 799-895) ----
    allPorts,        \* data of useCachedPromise(getActivePorts): the records shown
    hiddenPorts,     \* data of usePromise(getHiddenPorts): <<list>>, or <<>> (undefined)
    hLoading,        \* a (re)load of hiddenPorts is under way
    store,           \* LocalStorage item "hidden-ports": <<list>>, or <<>> (no item)
    ops,             \* the hidePort / unhidePort calls in flight
    lastChange       \* the write to the store made last

discVars == <<pc, output, dockerPorts, idx, currentPid, currentCommand,
              currentUser, portMap, lookups, result>>
classVars == <<cmdIn, flags>>
dockVars == <<dockerOut, dockerMap>>
menuVars == <<mpc, mOutput, mIdx, mPortMap, mResult>>
restartVars == <<rpc, form, info, newPort, optFlag, killed, launched, toast,
                 execCb, events>>
viewVars == <<allPorts, hiddenPorts, hLoading, store, ops, lastChange>>
vars == <<discVars, classVars, dockVars, menuVars, restartVars, viewVars>>

(***************************************************************************)
(* Bounds                                                                  *)
(***************************************************************************)
MaxLines == 4        \* lines in one lsof listing
MaxWords == 2        \* words in a command string handed to the classifier
MaxRows == 2         \* rows in one docker ps output
MaxFrags == 2        \* port fragments in one docker ps row
MaxMenuLines == 3    \* lines in one menu-bar lsof listing

(***************************************************************************)
(* Character strings                                                       *)
(***************************************************************************)
RECURSIVE Join(_, _)
\* words joined by sep, as Array.prototype.join
Join(ws, sep) ==
    IF ws = <<>> THEN <<>>
    ELSE IF Len(ws) = 1 THEN ws[1]
    ELSE ws[1] \o sep \o Join(Tail(ws), sep)

SP == <<" ">>

\* toLowerCase / the i flag, on the letters the model's strings use
Lower(c) ==
    CASE c = "V" -> "v" [] c = "U" -> "u" [] c = "F" -> "f" [] c = "N" -> "n"
      [] c = "S" -> "s" [] c = "W" -> "w" [] c = "A" -> "a" [] c = "R" -> "r"
      [] OTHER -> c

LowerStr(s) == [i \in 1..Len(s) |-> Lower(s[i])]

\* pat occurs in s at position i
MatchAt(s, pat, i) ==
    /\ i + Len(pat) - 1 <= Len(s)
    /\ \A j \in 1..Len(pat) : s[i + j - 1] = pat[j]

\* /pat/.test(s) for a literal pattern
Contains(s, pat) == \E i \in 1..Len(s) : MatchAt(s, pat, i)

\* /pat/i.test(s) for a literal lower-case pattern
ContainsI(s, pat) == Contains(LowerStr(s), pat)

wVite == <<"v","i","t","e">>
wViteCap == <<"V","i","t","e">>
wVitejs == <<"@","v","i","t","e","j","s">>
wUvicorn == <<"u","v","i","c","o","r","n">>
wFastapi == <<"f","a","s","t","a","p","i">>
wFlask == <<"f","l","a","s","k">>
wNext == <<"n","e","x","t">>
wDev == <<"d","e","v">>
wStart == <<"s","t","a","r","t">>
wNextServer == <<"n","e","x","t","-","s","e","r","v","e","r">>
wSvelte == <<"s","v","e","l","t","e">>
wWebpack == <<"w","e","b","p","a","c","k">>
wNuxt == <<"n","u","x","t">>
wRemix == <<"r","e","m","i","x">>
wAstro == <<"a","s","t","r","o">>
wNode == <<"n","o","d","e">>
wMainApp == <<"m","a","i","n",":","a","p","p">>
wPython == <<"p","y","t","h","o","n">>

(***************************************************************************)
(* detectServiceType (index.tsx 51-60)                                     *)
(***************************************************************************)
IsViteRe(command) == ContainsI(command, wVite) \/ ContainsI(command, wVitejs)
IsFastAPIRe(command) == ContainsI(command, wUvicorn) \/ ContainsI(command, wFastapi)
IsFlaskRe(command) == ContainsI(command, wFlask)
IsNextJSRe(command) ==
    \/ ContainsI(command, wNextServer)
    \/ ContainsI(command, wNext \o SP \o wDev)
    \/ ContainsI(command, wNext \o SP \o wStart)
IsSvelteKitRe(command) == ContainsI(command, wSvelte)
GenericDevRe(command) ==
    \/ ContainsI(command, wWebpack)
    \/ ContainsI(command, wNuxt)
    \/ ContainsI(command, wRemix)
    \/ ContainsI(command, wAstro)

\* line 57: isVite || isNextJS || isSvelteKit || /webpack|nuxt|remix|astro/i
IsDevServerOf(command) ==
    \/ IsViteRe(command) \/ IsNextJSRe(command) \/ IsSvelteKitRe(command)
    \/ GenericDevRe(command)

detectServiceType(command) ==
    [isVite |-> IsViteRe(command),
     isFastAPI |-> IsFastAPIRe(command),
     isFlask |-> IsFlaskRe(command),
     isNextJS |-> IsNextJSRe(command),
     isSvelteKit |-> IsSvelteKitRe(command),
     isDevServer |-> IsDevServerOf(command)]

\* words the classifier's inputs are built from
Words == {wVite, wViteCap, wVitejs, wUvicorn, wFastapi, wFlask, wNext, wDev,
          wStart, wNextServer, wSvelte, wWebpack, wNuxt, wRemix, wAstro,
          wNode, wMainApp, wPython}
WordSeqs == UNION {[1..n -> Words] : n \in 1..MaxWords}
Commands == {Join(ws, SP) : ws \in WordSeqs}

(***************************************************************************)
(* getDockerPorts (index.tsx 67-86)                                        *)
(*                                                                         *)
(* The docker ps output is either DockerFail (execSync throws: docker not  *)
(* installed, not running, non-zero exit) or a sequence of lines.  A line  *)
(* is blank or has the three tab-separated fields of the --format string.  *)
(* The ports field is a sequence of fragments; a fragment is               *)
(*   addr "v4"   : "0.0.0.0:<host>-><c>/tcp"                               *)
(*   addr "v6"   : ":::<host>-><c>/tcp"                                    *)
(*   addr "none" : "<c>/tcp", an exposed port without a host mapping       *)
(***************************************************************************)
DockerOutcome(st, ls) == [status |-> st, lines |-> ls]
DockerFail == DockerOutcome("fail", <<>>)
NotRun == DockerOutcome("notrun", <<>>)
EmptyMap == <<>>

Containers == {"web", "db"}
ImageOf(c) == IF c = "web" THEN "nginx" ELSE "postgres"

Frags == {[addr |-> "v4", host |-> 3000], [addr |-> "v6", host |-> 5000],
          [addr |-> "none", host |-> 0]}
FragSeqs == UNION {[1..n -> Frags] : n \in 0..MaxFrags}
BlankRow == [blank |-> TRUE, container |-> "", ports |-> <<>>, image |-> ""]
Rows == {[blank |-> FALSE, container |-> c, ports |-> fs, image |-> ImageOf(c)] :
            c \in Containers, fs \in FragSeqs}
\* the output ends in a newline, so output.split("\n") ends in an empty line
DockerLines(rows) == rows \o <<BlankRow>>

\* /(?:\d+\.\d+\.\d+\.\d+|::):(\d+)->/ matches the fragment
FragMatches(f) == f.addr \in {"v4", "v6"}

\* Map.prototype.set
MapSet(m, k, v) == [x \in (DOMAIN m) \cup {k} |-> IF x = k THEN v ELSE m[x]]

\* a plausible slip: keep the entry a port already has
PortMapSetFirstWins(m, k, v) == IF k \in DOMAIN m THEN m ELSE MapSet(m, k, v)

\* line 79: portMap.set(parseInt(match[1], 10), { container, image })
PortMapSet(m, k, v) == MapSet(m, k, v)

RECURSIVE SetMatches(_, _, _)
\* lines 77-80: every match of one line's ports field, in order
SetMatches(m, frags, di) ==
    IF frags = <<>> THEN m
    ELSE SetMatches(IF FragMatches(frags[1])
                       THEN PortMapSet(m, frags[1].host, di)
                       ELSE m,
                    Tail(frags), di)

RECURSIVE ParseDockerLines(_, _)
\* lines 73-81: the loop over output.split("\n")
ParseDockerLines(m, lines) ==
    IF lines = <<>> THEN m
    ELSE IF lines[1].blank THEN ParseDockerLines(m, Tail(lines))
    ELSE ParseDockerLines(
            SetMatches(m, lines[1].ports,
                       [container |-> lines[1].container, image |-> lines[1].image]),
            Tail(lines))

\* the try block: a failure of docker ps leaves the map empty
getDockerPorts(out) ==
    IF out.status = "fail" THEN EmptyMap ELSE ParseDockerLines(EmptyMap, out.lines)

\* a plausible slip: no try block, the failure of docker ps ends the cycle
AfterDockerNoCatch(out) == IF out.status = "fail" THEN "threw" ELSE "loop"

\* lines 69-84: the failure is caught inside getDockerPorts, the caller goes on
AfterDocker(out) == "loop"

DockerInit ==
    /\ dockerOut = NotRun
    /\ dockerMap = EmptyMap

\* one call of getDockerPorts
DockerRun ==
    /\ dockerOut = NotRun
    /\ \/ /\ dockerOut' = DockerFail
          /\ dockerMap' = getDockerPorts(DockerFail)
       \/ \E n \in 0..MaxRows : \E rows \in [1..n -> Rows] :
            /\ dockerOut' = DockerOutcome("ok", DockerLines(rows))
            /\ dockerMap' = getDockerPorts(dockerOut')
    /\ UNCHANGED <<discVars, classVars, menuVars, restartVars, viewVars>>

\* the map is discarded after the cycle that built it
DockerDiscard ==
    /\ dockerOut # NotRun
    /\ dockerOut' = NotRun
    /\ dockerMap' = EmptyMap
    /\ UNCHANGED <<discVars, classVars, menuVars, restartVars, viewVars>>

(***************************************************************************)
(* detectServiceType applied to one command string                         *)
(***************************************************************************)
ClassInit ==
    /\ cmdIn \in Commands
    /\ flags = <<>>

Detect ==
    /\ flags = <<>>
    /\ flags' = <<detectServiceType(cmdIn)>>
    /\ UNCHANGED <<cmdIn, discVars, dockVars, menuVars, restartVars, viewVars>>


(***************************************************************************)
(* getActivePorts of the main view (index.tsx 182-260)                     *)
(*                                                                         *)
(* A line of the lsof -F pcLn output has a one-character type and a value: *)
(*   "p" pid, "c" command name, "L" user, "n" network name, "f" the file   *)
(*   descriptor field lsof always prints, "" an empty line.                *)
(* The value of an "n" line either ends in ":<port>" (port > 0 below) or   *)
(* does not (port = 0).                                                    *)
(* displayName, projectPath and pageTitle are derived for display only and *)
(* are left out of the records.                                            *)
(***************************************************************************)
Pids == {1, 2}
ShortCommands == {wNode, wUvicorn}
Users == {"alice", "bob"}
Ports == {3000, 5000}
NoCwd == "undefined"
NoValue == "undefined"

Line(t, n, c, u) == [type |-> t, num |-> n, cmd |-> c, str |-> u]
PLines == {Line("p", p, <<>>, "") : p \in Pids}
CLines == {Line("c", 0, c, "") : c \in ShortCommands}
LLines == {Line("L", 0, <<>>, u) : u \in Users}
NLines == {Line("n", p, <<>>, "") : p \in Ports \cup {0}}
OtherLines == {Line("f", 0, <<>>, ""), Line("", 0, <<>>, "")}
Lines == PLines \cup CLines \cup LLines \cup NLines \cup OtherLines
\* lsof prints a process's "p" line before any other line of the process, so
\* a listing is empty or starts with a "p" line
Listings == {<<>>} \cup
            {<<l>> \o rest : l \in PLines,
                            rest \in UNION {[1..n -> Lines] : n \in 0..(MaxLines - 1)}}
LsofOutcome(ok, ls) == [ok |-> ok, lines |-> ls]
LsofFail == LsofOutcome(FALSE, <<>>)

\* !output?.trim(): nothing but empty lines
IsBlankOutput(out) == \A i \in 1..Len(out) : out[i].type = ""

\* value.match(/:(\d+)$/)
HasPortSuffix(line) == line.num > 0

\* what /bin/ps -p <pid> -o args= prints for a live process
FullCommandOf(pid) ==
    IF pid = 1 THEN wNode \o SP \o wVite ELSE wUvicorn \o SP \o wMainApp
\* what the lsof | awk pipeline prints for a process whose cwd is readable
CwdOf(pid) == IF pid = 2 THEN "/srv/api" ELSE "/srv/web"

\* outcome of one execSync: it throws, prints nothing, or prints a value
LookupOutcomes == {"throw", "empty", "value"}

\* a plausible slip: only the entry added last is compared
MapHasLastOnly(m, port) == Len(m) > 0 /\ m[Len(m)].port = port

\* portMap.has(key), portMap being kept in insertion order
MapHas(m, port) == \E i \in 1..Len(m) : m[i].port = port

\* lines 222-236: both lookups in one try block
Enrich(pid, shortCmd, cwdOut, psOut) ==
    IF cwdOut = "throw"
    THEN [cwd |-> NoCwd, fullCommand |-> shortCmd, psRun |-> FALSE]
    ELSE [cwd |-> IF cwdOut = "value" THEN CwdOf(pid) ELSE NoCwd,
          fullCommand |-> IF psOut = "value" THEN FullCommandOf(pid) ELSE shortCmd,
          psRun |-> TRUE]

\* dockerPorts.get(port)?.container / ?.image
DockerGet(m, port, field) ==
    IF port \in DOMAIN m THEN m[port][field] ELSE NoValue

\* a plausible slip: the records are made before the container map is built
MakePortInfoUnbuiltMap(port, pid, user, e, dports) ==
    [port |-> port, pid |-> pid, command |-> e.fullCommand, user |-> user,
     cwd |-> e.cwd, flags |-> detectServiceType(e.fullCommand),
     dockerContainer |-> DockerGet(EmptyMap, port, "container"),
     dockerImage |-> DockerGet(EmptyMap, port, "image")]

\* lines 238-253: the record stored for a new port
MakePortInfo(port, pid, user, e, dports) ==
    [port |-> port, pid |-> pid, command |-> e.fullCommand, user |-> user,
     cwd |-> e.cwd, flags |-> detectServiceType(e.fullCommand),
     dockerContainer |-> DockerGet(dports, port, "container"),
     dockerImage |-> DockerGet(dports, port, "image")]

RECURSIVE Insert(_, _)
Insert(r, sorted) ==
    IF sorted = <<>> THEN <<r>>
    ELSE IF r.port < sorted[1].port THEN <<r>> \o sorted
    ELSE <<sorted[1]>> \o Insert(r, Tail(sorted))

RECURSIVE SortByPort(_)
\* .sort((a, b) => a.port - b.port): stable, ascending by port
SortByPort(recs) ==
    IF recs = <<>> THEN <<>>
    ELSE Insert(recs[Len(recs)], SortByPort(SubSeq(recs, 1, Len(recs) - 1)))

\* a plausible slip: the values returned in insertion order
ReturnUnsorted(recs) == recs

\* line 259
ReturnValue(recs) == SortByPort(recs)

\* the docker ps outcomes a discovery cycle draws from
CycleDockerOutputs ==
    {DockerFail,
     DockerOutcome("ok", DockerLines(<<>>)),
     DockerOutcome("ok", DockerLines(
        <<[blank |-> FALSE, container |-> "web",
           ports |-> <<[addr |-> "v4", host |-> 3000], [addr |-> "v6", host |-> 3000]>>,
           image |-> "nginx"]>>))}

DiscInit ==
    /\ pc = "idle"
    /\ output = LsofOutcome(TRUE, <<>>)
    /\ dockerPorts = EmptyMap
    /\ idx = 1
    /\ currentPid = 0
    /\ currentCommand = <<>>
    /\ currentUser = ""
    /\ portMap = <<>>
    /\ lookups = <<>>
    /\ result = <<>>

\* lines 183-189: the listing command and the empty-output return
RunLsof ==
    /\ pc = "idle"
    /\ \/ \* execSync throws outside any try block: the async function rejects
          /\ output' = LsofFail
          /\ pc' = "threw"
          /\ UNCHANGED result
       \/ \E out \in Listings :
            /\ output' = LsofOutcome(TRUE, out)
            /\ pc' = IF IsBlankOutput(out) THEN "done" ELSE "docker"
            /\ result' = <<>>
    /\ UNCHANGED <<dockerPorts, idx, currentPid, currentCommand, currentUser,
                   portMap, lookups>>
    /\ UNCHANGED <<classVars, dockVars, menuVars, restartVars, viewVars>>

\* line 192: the container map, built once and before the loop
RunDocker ==
    /\ pc = "docker"
    /\ \E out \in CycleDockerOutputs :
        /\ dockerOut' = out
        /\ dockerPorts' = getDockerPorts(out)
        /\ pc' = AfterDocker(out)
    /\ UNCHANGED dockerMap
    /\ UNCHANGED <<output, idx, currentPid, currentCommand, currentUser,
                   portMap, lookups, result>>
    /\ UNCHANGED <<classVars, menuVars, restartVars, viewVars>>

\* lines 199-257: one iteration of the loop over the lines
ProcessLine ==
    /\ pc = "loop"
    /\ idx <= Len(output.lines)
    /\ idx' = idx + 1
    /\ LET line == output.lines[idx] IN
       /\ currentPid' = IF line.type = "p" THEN line.num ELSE currentPid
       /\ currentCommand' = IF line.type = "c" THEN line.cmd ELSE currentCommand
       /\ currentUser' = IF line.type = "L" THEN line.str ELSE currentUser
       /\ IF line.type = "n" /\ HasPortSuffix(line) /\ ~MapHas(portMap, line.num)
          THEN \E cwdOut \in LookupOutcomes, psOut \in LookupOutcomes :
                 LET e == Enrich(currentPid, currentCommand, cwdOut, psOut) IN
                 /\ portMap' = Append(portMap,
                        MakePortInfo(line.num, currentPid, currentUser, e, dockerPorts))
                 /\ lookups' = Append(lookups,
                        [port |-> line.num, cwdOut |-> cwdOut, psOut |-> psOut,
                         psRun |-> e.psRun])
          ELSE UNCHANGED <<portMap, lookups>>
    /\ UNCHANGED <<pc, output, dockerPorts, result>>
    /\ UNCHANGED <<classVars, dockVars, menuVars, restartVars, viewVars>>

\* the caller starts a new cycle (revalidate): nothing is kept from the old one
NewCycle ==
    /\ pc \in {"done", "threw"}
    /\ pc' = "idle"
    /\ output' = LsofOutcome(TRUE, <<>>)
    /\ dockerPorts' = EmptyMap
    /\ dockerOut' = NotRun
    /\ idx' = 1
    /\ currentPid' = 0
    /\ currentCommand' = <<>>
    /\ currentUser' = ""
    /\ portMap' = <<>>
    /\ lookups' = <<>>
    /\ result' = <<>>
    /\ UNCHANGED <<dockerMap, classVars, menuVars, restartVars, viewVars>>

\* line 259: the sorted values are returned
Return ==
    /\ pc = "loop"
    /\ idx > Len(output.lines)
    /\ result' = ReturnValue(portMap)
    /\ pc' = "done"
    /\ UNCHANGED <<output, dockerPorts, idx, currentPid, currentCommand,
                   currentUser, portMap, lookups>>
    /\ UNCHANGED <<classVars, dockVars, menuVars, restartVars, viewVars>>


(***************************************************************************)
(* getActivePorts of the menu-bar widget (part_000 18-63)                  *)
(*                                                                         *)
(* A line of the lsof table either has fewer than nine columns (short) or  *)
(* has the COMMAND, PID and NAME columns the code reads; the NAME column   *)
(* ends in ":<port>" (port > 0) or does not (port = 0).  The COMMAND       *)
(* column is the command name of the process with that pid.                *)
(***************************************************************************)
ShortCommandOf(pid) == IF pid = 1 THEN wNode ELSE wUvicorn
MenuLine(short, pid, port) == [short |-> short, pid |-> pid, port |-> port]
MenuLines == {MenuLine(FALSE, p, n) : p \in Pids, n \in Ports \cup {0}}
             \cup {MenuLine(TRUE, 0, 0)}
MenuListings == UNION {[1..n -> MenuLines] : n \in 0..MaxMenuLines}

\* portMap.has(`${port}-${pid}`)
MenuMapHas(m, port, pid) == \E i \in 1..Len(m) : m[i].port = port /\ m[i].pid = pid

\* lines 44-56: the command-line lookup in its own try block, and the record
MenuPortInfo(port, pid, psOut) ==
    LET fullCommand == IF psOut = "value" THEN FullCommandOf(pid)
                       ELSE ShortCommandOf(pid)
    IN [port |-> port, pid |-> pid, command |-> fullCommand,
        isVite |-> IsViteRe(fullCommand)]

MenuIdle ==
    /\ mpc = "idle"
    /\ mOutput = LsofOutcome(TRUE, <<>>)
    /\ mIdx = 1
    /\ mPortMap = <<>>
    /\ mResult = <<>>

\* lines 19-26 and 60-62: the listing command inside the try block
MenuRunLsof ==
    /\ mpc = "idle"
    /\ \/ \* execSync throws: the catch returns []
          /\ mOutput' = LsofFail
          /\ mpc' = "done"
       \/ \E out \in MenuListings :
            /\ mOutput' = LsofOutcome(TRUE, out)
            /\ mpc' = "loop"
    /\ mResult' = <<>>
    /\ UNCHANGED <<mIdx, mPortMap>>
    /\ UNCHANGED <<discVars, classVars, dockVars, restartVars, viewVars>>

\* lines 28-57: one iteration of the loop over the lines
MenuProcessLine ==
    /\ mpc = "loop"
    /\ mIdx <= Len(mOutput.lines)
    /\ mIdx' = mIdx + 1
    /\ LET line == mOutput.lines[mIdx] IN
       IF ~line.short /\ line.port > 0 /\ ~MenuMapHas(mPortMap, line.port, line.pid)
       THEN \E psOut \in LookupOutcomes :
               mPortMap' = Append(mPortMap, MenuPortInfo(line.port, line.pid, psOut))
       ELSE UNCHANGED mPortMap
    /\ UNCHANGED <<mpc, mOutput, mResult>>
    /\ UNCHANGED <<discVars, classVars, dockVars, restartVars, viewVars>>

\* line 59: the sorted values are returned
MenuReturn ==
    /\ mpc = "loop"
    /\ mIdx > Len(mOutput.lines)
    /\ mResult' = SortByPort(mPortMap)
    /\ mpc' = "done"
    /\ UNCHANGED <<mOutput, mIdx, mPortMap>>
    /\ UNCHANGED <<discVars, classVars, dockVars, restartVars, viewVars>>

\* line 75 of part_000: const count = ports.length
MenuCount(res) == Len(res)

\* the widget is rendered again: Command() calls getActivePorts anew
MenuRender ==
    /\ mpc = "done"
    /\ mpc' = "idle"
    /\ mOutput' = LsofOutcome(TRUE, <<>>)
    /\ mIdx' = 1
    /\ mPortMap' = <<>>
    /\ mResult' = <<>>
    /\ UNCHANGED <<discVars, classVars, dockVars, restartVars, viewVars>>

(***************************************************************************)
(* parseInt(text, 10) and the port validation of the restart forms         *)
(***************************************************************************)
Digits == <<"0","1","2","3","4","5","6","7","8","9">>
IsDigit(c) == \E d \in 1..10 : Digits[d] = c
DigitVal(c) == (CHOOSE d \in 1..10 : Digits[d] = c) - 1
IsSpace(c) == c = " "

RECURSIVE SkipSpaces(_, _)
\* index of the first character at or after i that is not white space
SkipSpaces(s, i) ==
    IF i <= Len(s) /\ IsSpace(s[i]) THEN SkipSpaces(s, i + 1) ELSE i

RECURSIVE DigitRun(_, _, _)
\* value of the run of digits of s that starts at i, acc being the value so far
DigitRun(s, i, acc) ==
    IF i <= Len(s) /\ IsDigit(s[i])
    THEN DigitRun(s, i + 1, acc * 10 + DigitVal(s[i]))
    ELSE acc

\* parseInt(s, 10): leading white space, an optional sign, then the longest
\* run of digits; NaN when there is no digit there
parseInt(s) ==
    LET i == SkipSpaces(s, 1)
        signed == i <= Len(s) /\ s[i] \in {"-", "+"}
        j == IF signed THEN i + 1 ELSE i
        mag == DigitRun(s, j, 0)
    IN IF j <= Len(s) /\ IsDigit(s[j])
       THEN [nan |-> FALSE, val |-> IF signed /\ s[i] = "-" THEN 0 - mag ELSE mag]
       ELSE [nan |-> TRUE, val |-> 0]

MinPort == 1
MaxPort == 65535

\* a plausible slip: the lower limit tested with port < 0
PortRejectedFromZero(text) ==
    LET port == parseInt(text) IN port.nan \/ port.val < 0 \/ port.val > MaxPort

\* lines 286-287: isNaN(port) || port < 1 || port > 65535
PortRejected(text) ==
    LET port == parseInt(text) IN port.nan \/ port.val < MinPort \/ port.val > MaxPort

t0 == <<"0">>
t1 == <<"1">>
t65535 == <<"6","5","5","3","5">>
t65536 == <<"6","5","5","3","6">>
tAbc == <<"a","b","c">>
t8080 == <<"8","0","8","0">>
t80abc == <<"8","0","a","b","c">>
t80dot5 == <<"8","0",".","5">>
tEmpty == <<>>
tMinus1 == <<"-","1">>
t3001 == <<"3","0","0","1">>
\* texts typed into the port field
PortTexts == {t0, t1, t65535, t65536, tAbc, t8080, t80abc, t80dot5, tEmpty,
              tMinus1, t3001}

(***************************************************************************)
(* Restart workflows (index.tsx 281-485, 508-527, 621-667)                 *)
(***************************************************************************)
Forms == {"Vite", "FastAPI", "NextJS", "Flask", "SvelteKit"}

\* the service flag that offers each workflow in PortListItem (lines 624-665)
FormFlag(f, fl) ==
    CASE f = "Vite" -> fl.isVite
      [] f = "FastAPI" -> fl.isFastAPI
      [] f = "NextJS" -> fl.isNextJS
      [] f = "Flask" -> fl.isFlask
      [] f = "SvelteKit" -> fl.isSvelteKit

\* a plausible slip: the restart section offered without the cwd test
RestartOfferedAnyCwd(i, f) == FormFlag(f, i.flags)

\* line 622: a flag is set and info.cwd is truthy
RestartOffered(i, f) == FormFlag(f, i.flags) /\ i.cwd # NoCwd

\* the grace delay of each workflow, in milliseconds
GraceDelay(f) ==
    CASE f \in {"Vite", "FastAPI", "Flask"} -> 1500
      [] f = "NextJS" -> 2000
      [] f = "SvelteKit" -> 3000

\* /uvicorn\s+([^\s]+)/: the places where "uvicorn", white space and a
\* character that is not white space follow one another
UvicornMatches(cmd) ==
    {i \in 1..Len(cmd) :
        /\ MatchAt(cmd, wUvicorn, i)
        /\ i + Len(wUvicorn) <= Len(cmd)
        /\ IsSpace(cmd[i + Len(wUvicorn)])
        /\ SkipSpaces(cmd, i + Len(wUvicorn)) <= Len(cmd)}

RECURSIVE TokenEnd(_, _)
\* index of the last character of the run without white space that starts at i
TokenEnd(s, i) ==
    IF i + 1 <= Len(s) /\ ~IsSpace(s[i + 1]) THEN TokenEnd(s, i + 1) ELSE i

\* lines 353-354: appMatch?.[1] || "main:app"
AppModule(cmd) ==
    IF UvicornMatches(cmd) = {} THEN wMainApp
    ELSE LET i == CHOOSE k \in UvicornMatches(cmd) :
                    \A m \in UvicornMatches(cmd) : k <= m
             b == SkipSpaces(cmd, i + Len(wUvicorn))
         IN SubSeq(cmd, b, TokenEnd(cmd, b))

\* a plausible slip: the record's port in the template instead of the new one
LaunchCommandOldPort(f, i, port, opt) ==
    [cwd |-> IF i.cwd # NoCwd THEN i.cwd ELSE "process.cwd()",
     run |-> CASE f \in {"Vite", "NextJS"} -> "npm run dev --"
               [] f = "FastAPI" -> "uvicorn"
               [] f = "Flask" -> "flask run"
               [] f = "SvelteKit" -> "npm run build && npm run preview",
     module |-> IF f = "FastAPI" THEN AppModule(i.command) ELSE <<>>,
     port |-> IF f = "SvelteKit" THEN 0 ELSE i.port,
     flag |-> CASE f = "FastAPI" /\ opt -> "--reload"
                [] f = "Flask" /\ opt -> "--debug"
                [] OTHER -> ""]

\* the command handed to exec: the directory of the cd, the program, and
\* the arguments the template adds
LaunchCommand(f, i, port, opt) ==
    [cwd |-> IF i.cwd # NoCwd THEN i.cwd ELSE "process.cwd()",
     run |-> CASE f \in {"Vite", "NextJS"} -> "npm run dev --"
               [] f = "FastAPI" -> "uvicorn"
               [] f = "Flask" -> "flask run"
               [] f = "SvelteKit" -> "npm run build && npm run preview",
     module |-> IF f = "FastAPI" THEN AppModule(i.command) ELSE <<>>,
     port |-> IF f = "SvelteKit" THEN 0 ELSE port,
     flag |-> CASE f = "FastAPI" /\ opt -> "--reload"
                [] f = "Flask" /\ opt -> "--debug"
                [] OTHER -> ""]

Toast(style, title) == [style |-> style, title |-> title]

wMyApp == <<"m","y",":","a","p","p">>
\* command lines of the records the list shows
InfoCommands == {wNode \o SP \o wVite,
                 wUvicorn \o SP \o wMainApp,
                 wUvicorn \o SP \o wMyApp,
                 wPython \o SP \o wUvicorn \o SP \o wMyApp,
                 wPython \o SP \o wFastapi,
                 wFlask,
                 wNext \o SP \o wDev,
                 wNode \o SP \o wSvelte,
                 wNode}
Infos == {MakePortInfo(3000, 1, "alice",
                       [cwd |-> c, fullCommand |-> cmd, psRun |-> TRUE], EmptyMap) :
             c \in {"/srv/web", NoCwd}, cmd \in InfoCommands}

NoInfo == MakePortInfo(0, 0, "", [cwd |-> NoCwd, fullCommand |-> <<>>, psRun |-> FALSE],
                       EmptyMap)

RestartInit ==
    /\ rpc = "list"
    /\ form = "none"
    /\ info \in Infos
    /\ newPort = <<>>
    /\ optFlag = TRUE
    /\ killed = "none"
    /\ launched = <<>>
    /\ toast = Toast("none", "")
    /\ execCb = "none"
    /\ events = <<>>

\* Action.Push of a restart form: useState(String(info.port + 1)), useState(true)
OpenForm ==
    /\ rpc = "list"
    /\ \E f \in Forms \ {"SvelteKit"} :
        /\ RestartOffered(info, f)
        /\ form' = f
    /\ rpc' = "form"
    /\ newPort' = t3001
    /\ optFlag' = TRUE
    /\ UNCHANGED <<info, killed, launched, toast, execCb, events>>
    /\ UNCHANGED <<discVars, classVars, dockVars, menuVars, viewVars>>

\* onChange of the port field
SetNewPort ==
    /\ rpc \in {"form", "rejected"}
    /\ \E t \in PortTexts : newPort' = t
    /\ rpc' = "form"
    /\ UNCHANGED <<form, info, optFlag, killed, launched, toast, execCb, events>>
    /\ UNCHANGED <<discVars, classVars, dockVars, menuVars, viewVars>>

\* onChange of the reload / debug checkbox
SetOption ==
    /\ rpc = "form"
    /\ form \in {"FastAPI", "Flask"}
    /\ optFlag' = ~optFlag
    /\ UNCHANGED <<rpc, form, info, newPort, killed, launched, toast, execCb, events>>
    /\ UNCHANGED <<discVars, classVars, dockVars, menuVars, viewVars>>

\* a plausible slip: the kill outside a try block, its failure ends the handler
KillStepNoCatch(outcome) ==
    /\ killed' = outcome
    /\ events' = Append(events, "kill")
    /\ IF outcome = "failed"
       THEN rpc' = "aborted" /\ UNCHANGED toast
       ELSE rpc' = "toastPending" /\ toast' = Toast("Animated", "Starting")

\* try { execSync(`kill -9 ${info.pid}`) } catch {}, then showToast(Animated)
KillStep(outcome) ==
    /\ killed' = outcome
    /\ events' = Append(events, "kill")
    /\ rpc' = "toastPending"
    /\ toast' = Toast("Animated", "Starting")

\* handleSubmit up to its first await: validation, kill, showToast
Submit ==
    /\ rpc = "form"
    /\ IF PortRejected(newPort)
       THEN /\ rpc' = "rejected"
            /\ toast' = Toast("Failure", "Invalid port number")
            /\ UNCHANGED <<killed, events>>
       ELSE \E outcome \in {"ok", "failed"} : KillStep(outcome)
    /\ UNCHANGED <<form, info, newPort, optFlag, launched, execCb>>
    /\ UNCHANGED <<discVars, classVars, dockVars, menuVars, viewVars>>

\* the "Build and Run Preview" action: runSvelteKitPreview up to its first await
InvokePreview ==
    /\ rpc = "list"
    /\ RestartOffered(info, "SvelteKit")
    /\ form' = "SvelteKit"
    /\ \E outcome \in {"ok", "failed"} : KillStep(outcome)
    /\ UNCHANGED <<info, newPort, optFlag, launched, execCb>>
    /\ UNCHANGED <<discVars, classVars, dockVars, menuVars, viewVars>>

\* showToast resolved: exec(...) is called and the grace timer is started
Launch ==
    /\ rpc = "toastPending"
    /\ launched' = <<LaunchCommand(form, info, parseInt(newPort).val, optFlag)>>
    /\ execCb' = "pending"
    /\ events' = Append(events, "launch")
    /\ rpc' = "waiting"
    /\ UNCHANGED <<form, info, newPort, optFlag, killed, toast>>
    /\ UNCHANGED <<discVars, classVars, dockVars, menuVars, viewVars>>

\* the callback of exec runs when the launched process has ended
ExecCallback ==
    /\ execCb = "pending"
    /\ \/ /\ execCb' = "error"
          /\ toast' = Toast("Failure", "Failed to start")
       \/ /\ execCb' = "ok"
          /\ UNCHANGED toast
    /\ UNCHANGED <<rpc, form, info, newPort, optFlag, killed, launched, events>>
    /\ UNCHANGED <<discVars, classVars, dockVars, menuVars, viewVars>>

\* a plausible slip: the caller is refreshed before the success is reported
CompletionStepsRefreshFirst(f) ==
    IF f = "SvelteKit" THEN <<"revalidate", "success">>
    ELSE <<"onRestart", "success", "pop">>

\* what follows the await of the grace delay: the success notice, then
\* onRestart() and pop(), or for the preview the revalidate() of line 662
CompletionSteps(f) ==
    IF f = "SvelteKit" THEN <<"success", "revalidate">>
    ELSE <<"success", "onRestart", "pop">>

\* the grace timer fired
GraceExpired ==
    /\ rpc = "waiting"
    /\ toast' = Toast("Success", "restarting")
    /\ events' = events \o CompletionSteps(form)
    /\ rpc' = "confirmed"
    /\ UNCHANGED <<form, info, newPort, optFlag, killed, launched, execCb>>
    /\ UNCHANGED <<discVars, classVars, dockVars, menuVars, viewVars>>

RestartNext ==
    \/ OpenForm \/ SetNewPort \/ SetOption \/ Submit \/ InvokePreview
    \/ Launch \/ ExecCallback \/ GraceExpired

(***************************************************************************)
(* The list view and the hidden-port store (index.tsx 487-494, 761-895)    *)
(***************************************************************************)
ViewPorts == {3000, 5000}
Ops == {1, 2}

\* Array.prototype.includes on a list of ports
Includes(list, p) == \E k \in 1..Len(list) : list[k] = p

\* lines 487-490: stored ? JSON.parse(stored) : []
getHiddenPorts(st) == IF st = <<>> THEN <<>> ELSE st[1]

\* lines 492-494: LocalStorage.setItem(HIDDEN_PORTS_KEY, JSON.stringify(ports))
setHiddenPorts(list) == <<list>>

\* a plausible slip: hidePort without the includes test
HideWritesAlways(current, port) == TRUE

\* line 813: if (!current.includes(port))
HideWrites(current, port) == ~Includes(current, port)

\* a plausible slip: the new port is stored alone
HideListOnlyNew(current, port) == <<port>>

\* line 814: [...current, port]
HideList(current, port) == Append(current, port)

\* a plausible slip: unhide clears the list
UnhideListClear(current, port) == <<>>

RECURSIVE UnhideList(_, _)
\* line 826: current.filter((p) => p !== port)
UnhideList(current, port) ==
    IF current = <<>> THEN <<>>
    ELSE IF Head(current) = port THEN UnhideList(Tail(current), port)
         ELSE <<Head(current)>> \o UnhideList(Tail(current), port)

RECURSIVE FilterRecords(_, _, _)
\* allPorts.filter(...) with the test "port is in list" equal to keep
FilterRecords(all, list, keep) ==
    IF all = <<>> THEN <<>>
    ELSE IF Includes(list, Head(all).port) = keep
         THEN <<Head(all)>> \o FilterRecords(Tail(all), list, keep)
         ELSE FilterRecords(Tail(all), list, keep)

RECURSIVE FilterDev(_, _)
\* visiblePorts.filter((p) => p.isDevServer) and its complement
FilterDev(recs, dev) ==
    IF recs = <<>> THEN <<>>
    ELSE IF Head(recs).flags.isDevServer = dev
         THEN <<Head(recs)>> \o FilterDev(Tail(recs), dev)
         ELSE FilterDev(Tail(recs), dev)

\* hiddenPorts?.includes(...) and hiddenPorts || []: undefined hides nothing
LoadedList(hp) == IF hp = <<>> THEN <<>> ELSE hp[1]

\* line 834
VisiblePorts(all, hp) == FilterRecords(all, LoadedList(hp), FALSE)

\* a plausible slip: the count of the stored ports instead of the records
HiddenCountOfList(all, hp) == Len(LoadedList(hp))

\* line 835
HiddenCount(all, hp) == Len(FilterRecords(all, LoadedList(hp), TRUE))

\* lines 837-838
DevPorts(all, hp) == FilterDev(VisiblePorts(all, hp), TRUE)
SystemPorts(all, hp) == FilterDev(VisiblePorts(all, hp), FALSE)

\* HiddenServicesView, line 772, with the props of lines 877-878
HiddenView(all, hp) == FilterRecords(all, LoadedList(hp), TRUE)

\* one record per listening port: a dev server (vite) or another process
ViewRecord(port, dev) ==
    MakePortInfo(port, 1, "alice",
                 [cwd |-> NoCwd,
                  fullCommand |-> IF dev THEN wNode \o SP \o wVite ELSE wNode,
                  psRun |-> TRUE], EmptyMap)

\* results of getActivePorts: sorted by port, one record per port (line 259)
RECURSIVE RecordsOf(_, _)
RecordsOf(ps, devs) ==
    IF ps = {} THEN <<>>
    ELSE LET p == CHOOSE x \in ps : \A y \in ps : x <= y
         IN <<ViewRecord(p, p \in devs)>> \o RecordsOf(ps \ {p}, devs)
RecordSets == {RecordsOf(ps, devs) : ps \in SUBSET ViewPorts, devs \in SUBSET ViewPorts}

\* lists without repetition
NoDuplicates(list) ==
    \A i, j \in 1..Len(list) : list[i] = list[j] => i = j

\* the item is absent, or holds a list the view wrote earlier
InitialStores ==
    {<<>>} \cup
    {<<l>> : l \in {x \in UNION {[1..n -> ViewPorts] : n \in 0..Cardinality(ViewPorts)} :
                       NoDuplicates(x)}}

IdleOp == [kind |-> "none", port |-> 0, pc |-> "idle", cur |-> <<>>, missed |-> 0]
NoChange == [kind |-> "none", port |-> 0, effective |-> FALSE, missed |-> 0]

ViewIdle ==
    /\ allPorts = <<>>
    /\ hiddenPorts = <<>>
    /\ hLoading = FALSE
    /\ store = <<>>
    /\ ops = [o \in Ops |-> IdleOp]
    /\ lastChange = NoChange

\* Command mounted: both hooks start loading
ViewInit ==
    /\ allPorts = <<>>
    /\ hiddenPorts = <<>>
    /\ hLoading = TRUE
    /\ store \in InitialStores
    /\ ops = [o \in Ops |-> IdleOp]
    /\ lastChange = NoChange

\* a discovery cycle delivers its result to useCachedPromise
Discover ==
    /\ allPorts' \in RecordSets
    /\ UNCHANGED <<hiddenPorts, hLoading, store, ops, lastChange>>
    /\ UNCHANGED <<discVars, classVars, dockVars, menuVars, restartVars>>

\* lines 262-279, 615-617: killProcess on a listed record, then revalidate()
KillProcess ==
    /\ allPorts # <<>>
    /\ allPorts' \in RecordSets
    /\ UNCHANGED <<hiddenPorts, hLoading, store, ops, lastChange>>
    /\ UNCHANGED <<discVars, classVars, dockVars, menuVars, restartVars>>

\* lines 496-506: dockerAction(action, container, revalidate)
DockerActionDone ==
    /\ allPorts # <<>>
    /\ allPorts' \in RecordSets
    /\ UNCHANGED <<hiddenPorts, hLoading, store, ops, lastChange>>
    /\ UNCHANGED <<discVars, classVars, dockVars, menuVars, restartVars>>

\* a restart workflow ended: onRestart = revalidate (lines 629, 662)
RestartDone ==
    /\ allPorts # <<>>
    /\ allPorts' \in RecordSets
    /\ UNCHANGED <<hiddenPorts, hLoading, store, ops, lastChange>>
    /\ UNCHANGED <<discVars, classVars, dockVars, menuVars, restartVars>>

\* usePromise(getHiddenPorts) resolves
LoadHidden ==
    /\ hLoading
    /\ hiddenPorts' = <<getHiddenPorts(store)>>
    /\ hLoading' = FALSE
    /\ UNCHANGED <<allPorts, store, ops, lastChange>>
    /\ UNCHANGED <<discVars, classVars, dockVars, menuVars, restartVars>>

\* the call read the store: const current = await getHiddenPorts()
StartOp(o, kind, port) ==
    ops' = [ops EXCEPT ![o] = [kind |-> kind, port |-> port, pc |-> "read",
                               cur |-> getHiddenPorts(store), missed |-> 0]]

\* "Hide Service" on a record of the main list (lines 738-745, 811-812)
HideInvoke(o) ==
    /\ ops[o].pc = "idle"
    /\ \E k \in 1..Len(VisiblePorts(allPorts, hiddenPorts)) :
          StartOp(o, "hide", VisiblePorts(allPorts, hiddenPorts)[k].port)
    /\ UNCHANGED <<allPorts, hiddenPorts, hLoading, store, lastChange>>
    /\ UNCHANGED <<discVars, classVars, dockVars, menuVars, restartVars>>

\* "Unhide Service" on a record of the hidden view (lines 746-753, 824-825)
UnhideInvoke(o) ==
    /\ ops[o].pc = "idle"
    /\ \E k \in 1..Len(HiddenView(allPorts, hiddenPorts)) :
          StartOp(o, "unhide", HiddenView(allPorts, hiddenPorts)[k].port)
    /\ UNCHANGED <<allPorts, hiddenPorts, hLoading, store, lastChange>>
    /\ UNCHANGED <<discVars, classVars, dockVars, menuVars, restartVars>>

\* the list the call hands to setHiddenPorts
WrittenList(op) ==
    IF op.kind = "hide" THEN HideList(op.cur, op.port)
    ELSE UnhideList(op.cur, op.port)

\* the call writes at all
Writes(op) == op.kind = "unhide" \/ HideWrites(op.cur, op.port)

\* the other calls that have read and not yet written miss this write
NoteMissed(o) ==
    [x \in Ops |->
        IF x = o THEN [ops[o] EXCEPT !.pc = "written", !.cur = <<>>, !.missed = 0]
        ELSE IF ops[x].pc = "read"
             THEN [ops[x] EXCEPT !.missed = IF @ < 2 THEN @ + 1 ELSE @]
             ELSE ops[x]]

\* await setHiddenPorts(...) of lines 814 and 826
WriteStore(o) ==
    /\ ops[o].pc = "read"
    /\ Writes(ops[o])
    /\ store' = setHiddenPorts(WrittenList(ops[o]))
    /\ ops' = NoteMissed(o)
    /\ lastChange' =
          [kind |-> ops[o].kind, port |-> ops[o].port,
           effective |-> Includes(getHiddenPorts(store), ops[o].port)
                           = (ops[o].kind = "unhide"),
           missed |-> ops[o].missed]
    /\ UNCHANGED <<allPorts, hiddenPorts, hLoading>>
    /\ UNCHANGED <<discVars, classVars, dockVars, menuVars, restartVars>>

\* line 813 false: hidePort returns without writing
SkipWrite(o) ==
    /\ ops[o].pc = "read"
    /\ ~Writes(ops[o])
    /\ ops' = [ops EXCEPT ![o] = IdleOp]
    /\ UNCHANGED <<allPorts, hiddenPorts, hLoading, store, lastChange>>
    /\ UNCHANGED <<discVars, classVars, dockVars, menuVars, restartVars>>

\* await showToast(...) resolved, then revalidateHidden()
FinishOp(o) ==
    /\ ops[o].pc = "written"
    /\ ops' = [ops EXCEPT ![o] = IdleOp]
    /\ hLoading' = TRUE
    /\ UNCHANGED <<allPorts, hiddenPorts, store, lastChange>>
    /\ UNCHANGED <<discVars, classVars, dockVars, menuVars, restartVars>>

ViewNext ==
    \/ Discover \/ KillProcess \/ DockerActionDone \/ RestartDone \/ LoadHidden
    \/ \E o \in Ops : HideInvoke(o)
    \/ \E o \in Ops : UnhideInvoke(o)
    \/ \E o \in Ops : WriteStore(o)
    \/ \E o \in Ops : SkipWrite(o)
    \/ \E o \in Ops : FinishOp(o)

(***************************************************************************)
(* Specifications                                                          *)
(***************************************************************************)
ClassIdle == cmdIn = <<>> /\ flags = <<>>

RestartIdle ==
    /\ rpc = "off"
    /\ form = "none"
    /\ info = NoInfo
    /\ newPort = <<>>
    /\ optFlag = TRUE
    /\ killed = "none"
    /\ launched = <<>>
    /\ toast = Toast("none", "")
    /\ execCb = "none"
    /\ events = <<>>

\* discovery cycles of the main view
Init == DiscInit /\ DockerInit /\ ClassIdle /\ MenuIdle /\ RestartIdle /\ ViewIdle
Next == RunLsof \/ RunDocker \/ ProcessLine \/ Return \/ NewCycle
Spec == Init /\ [][Next]_vars

\* the restart workflows, for one record of the list
InitRestart == DiscInit /\ DockerInit /\ ClassIdle /\ MenuIdle /\ RestartInit /\ ViewIdle
SpecRestart == InitRestart /\ [][RestartNext]_vars
\* showToast resolves and the grace timer fires; the user and the launched
\* process are not obliged to do anything
FairRestart == WF_vars(Launch) /\ WF_vars(GraceExpired)
SpecRestartFair == InitRestart /\ [][RestartNext]_vars /\ FairRestart

\* the classifier on one command string
InitClass == DiscInit /\ DockerInit /\ ClassInit /\ MenuIdle /\ RestartIdle /\ ViewIdle
SpecClass == InitClass /\ [][Detect]_vars

\* the menu-bar widget
MenuNext == MenuRunLsof \/ MenuProcessLine \/ MenuReturn \/ MenuRender
SpecMenu == Init /\ [][MenuNext]_vars

\* one call of getDockerPorts on one docker ps outcome
SpecDocker == Init /\ [][DockerRun \/ DockerDiscard]_vars

\* the list view with its hidden-port store
InitView == DiscInit /\ DockerInit /\ ClassIdle /\ MenuIdle /\ RestartIdle /\ ViewInit
SpecView == InitView /\ [][ViewNext]_vars

(***************************************************************************)
(* What a listing says, read off the lines independently of the parser     *)
(***************************************************************************)
\* indices of the network-name lines that end in a port
PortLines(ls) == {i \in 1..Len(ls) : ls[i].type = "n" /\ ls[i].num > 0}
PortsMentioned(ls) == {ls[i].num : i \in PortLines(ls)}
\* the first network-name line for port p
FirstLineOf(ls, p) ==
    CHOOSE i \in PortLines(ls) :
        /\ ls[i].num = p
        /\ \A j \in PortLines(ls) : ls[j].num = p => i <= j
\* index of the last line of type t before line i, 0 if there is none
LastBefore(ls, i, t) ==
    IF \E j \in 1..(i - 1) : ls[j].type = t
    THEN CHOOSE j \in 1..(i - 1) :
            /\ ls[j].type = t
            /\ \A k \in 1..(i - 1) : ls[k].type = t => k <= j
    ELSE 0
PidAt(ls, i) == IF LastBefore(ls, i, "p") = 0 THEN 0 ELSE ls[LastBefore(ls, i, "p")].num
CommandAt(ls, i) == IF LastBefore(ls, i, "c") = 0 THEN <<>> ELSE ls[LastBefore(ls, i, "c")].cmd
UserAt(ls, i) == IF LastBefore(ls, i, "L") = 0 THEN "" ELSE ls[LastBefore(ls, i, "L")].str

\* the records of recs for port p
RecordsFor(recs, p) == {k \in 1..Len(recs) : recs[k].port = p}

(***************************************************************************)
(* Claims                                                                  *)
(***************************************************************************)

C2_FailureYieldsEmpty ==
    ~output.ok => (pc = "done" /\ result = <<>>)

\* the widget's half of C2: when its listing command fails, it returns an
\* empty array
MenuFailureYieldsEmpty ==
    ~mOutput.ok => (mpc = "done" /\ mResult = <<>>)

\* C3 as stated: isDevServer is true exactly when one of the five framework
\* flags is true or the command matches the generic bundler list.
C3_DevServerIsAnyFlag ==
    flags # <<>> =>
        (flags[1].isDevServer <=>
            \/ flags[1].isVite \/ flags[1].isFastAPI \/ flags[1].isFlask
            \/ flags[1].isNextJS \/ flags[1].isSvelteKit
            \/ GenericDevRe(cmdIn))

\* C4: a submission of "0", "65536" or "abc" ends in the validation failure
\* notice with no kill, no launch, no onRestart and no pop; a submission of
\* "8080" passes validation and goes on to the kill.
C4_InvalidPortRejected ==
    (form \in Forms \ {"SvelteKit"} /\ rpc \notin {"list", "form"}) =>
        /\ newPort \in {t0, t65536, tAbc} =>
            /\ rpc = "rejected"
            /\ toast = Toast("Failure", "Invalid port number")
            /\ killed = "none"
            /\ launched = <<>>
            /\ events = <<>>
        /\ newPort = t8080 => (rpc # "rejected" /\ killed # "none")

\* the Uvicorn form after "abc" was submitted, and rejected
C4_Witness ==
    /\ form = "FastAPI"
    /\ rpc = "rejected"
    /\ newPort = tAbc

\* the text is a decimal numeral of an integer in [1, 65535]
DenotesPort(text) ==
    /\ Len(text) > 0
    /\ \A i \in 1..Len(text) : IsDigit(text[i])
    /\ DigitRun(text, 1, 0) >= MinPort
    /\ DigitRun(text, 1, 0) <= MaxPort

\* C5 as stated: a submitted text is accepted if and only if it denotes an
\* integer in [1, 65535].
C5_AcceptedIffInteger ==
    (form \in Forms \ {"SvelteKit"} /\ rpc \notin {"list", "form"}) =>
        (rpc # "rejected" <=> DenotesPort(newPort))

\* the workflow is complete: the launch was issued after the kill attempt,
\* then success was reported and the caller told
Completed ==
    /\ rpc = "confirmed"
    /\ launched # <<>>
    /\ Len(events) >= 4
    /\ events[1] = "kill"
    /\ events[2] = "launch"
    /\ events[3] = "success"
    /\ events[4] \in {"onRestart", "revalidate"}

\* C6: once a request has passed validation (the kill was attempted, with
\* either outcome), the workflow eventually is complete.
C6_AcceptedRestartCompletes == (killed # "none") ~> Completed

\* a complete workflow whose kill attempt failed
C6_Witness == Completed /\ killed = "failed"

\* C7 as stated: each lookup that yields a value is used, whatever the
\* other lookup did, and the command-line lookup is always attempted.
C7_IndependentLookups ==
    \A k \in 1..Len(portMap) :
        /\ lookups[k].psRun
        /\ lookups[k].psOut = "value" =>
              portMap[k].command = FullCommandOf(portMap[k].pid)
        /\ lookups[k].cwdOut = "value" =>
              portMap[k].cwd = CwdOf(portMap[k].pid)

RECURSIVE FragOccurrences(_, _)
\* the matching fragments of one row, in order, each with the row's container
FragOccurrences(frags, row) ==
    IF frags = <<>> THEN <<>>
    ELSE (IF frags[1].addr \in {"v4", "v6"}
          THEN <<[port |-> frags[1].host, container |-> row.container,
                  image |-> row.image]>>
          ELSE <<>>)
         \o FragOccurrences(Tail(frags), row)

RECURSIVE Occurrences(_)
\* every host port occurrence of a docker ps output, in output order
Occurrences(lines) ==
    IF lines = <<>> THEN <<>>
    ELSE (IF lines[1].blank THEN <<>> ELSE FragOccurrences(lines[1].ports, lines[1]))
         \o Occurrences(Tail(lines))

\* C8: the map has exactly the host ports that occur in the output, and
\* each entry names the container and image of the port's last occurrence.
C8_LastOccurrenceWins ==
    dockerOut.status = "ok" =>
        LET occ == Occurrences(dockerOut.lines) IN
        /\ DOMAIN dockerMap = {occ[i].port : i \in 1..Len(occ)}
        /\ \A i \in 1..Len(occ) :
              (\A j \in (i + 1)..Len(occ) : occ[j].port # occ[i].port) =>
                 dockerMap[occ[i].port] =
                    [container |-> occ[i].container, image |-> occ[i].image]

\* a port that occurs against two containers, mapped to the later one
C8_Witness ==
    /\ dockerOut.status = "ok"
    /\ LET occ == Occurrences(dockerOut.lines) IN
       \E i, j \in 1..Len(occ) :
          /\ i < j
          /\ occ[i].port = occ[j].port
          /\ occ[i].container # occ[j].container
          /\ \A k \in (j + 1)..Len(occ) : occ[k].port # occ[j].port
          /\ dockerMap[occ[j].port].container = occ[j].container

\* the docker ps command failed or printed no row
NoContainerRows ==
    \/ dockerOut.status = "fail"
    \/ dockerOut.status = "ok" /\ \A i \in 1..Len(dockerOut.lines) : dockerOut.lines[i].blank

\* C9: when docker ps fails or prints no row the map is empty, no record
\* of the cycle has a container name or image, and the cycle goes on to
\* return one record per port of the listing.
C9_NoContainerDegrades ==
    NoContainerRows =>
        /\ pc \in {"loop", "done"}
        /\ dockerPorts = EmptyMap
        /\ \A k \in 1..Len(portMap) :
              portMap[k].dockerContainer = NoValue /\ portMap[k].dockerImage = NoValue
        /\ pc = "done" =>
              /\ Len(result) = Cardinality(PortsMentioned(output.lines))
              /\ \A k \in 1..Len(result) :
                    result[k].dockerContainer = NoValue /\ result[k].dockerImage = NoValue

\* a finished cycle that returned a record although docker ps had failed
C9_Witness ==
    /\ pc = "done"
    /\ dockerOut.status = "fail"
    /\ Len(result) >= 1
    /\ result[1].dockerContainer = NoValue

\* C10: the returned sequence is strictly ascending by port.
C10_StrictlyAscending ==
    pc = "done" =>
        \A i, j \in 1..Len(result) : i < j => result[i].port < result[j].port

\* a finished cycle whose listing had the ports in descending order
C10_Witness ==
    /\ pc = "done"
    /\ Len(result) >= 2
    /\ portMap[1].port > portMap[2].port
    /\ result[1].port < result[2].port

\* C11 as stated: when the relaunch command has failed and the workflow has
\* run to its end, the notice of the restart is a failure notice, whichever
\* of the error callback and the grace timer came first.
C11_FailureSurfaced ==
    (rpc = "confirmed" /\ execCb = "error") => toast.style = "Failure"

\* the container field a record of the cycle must show, read off the whole
\* docker ps output: the container of the port's last occurrence
ExpectedContainer(out, port) ==
    LET occ == IF out.status = "ok" THEN Occurrences(out.lines) ELSE <<>>
        at == {i \in 1..Len(occ) : occ[i].port = port}
    IN IF at = {} THEN NoValue
       ELSE occ[CHOOSE i \in at : \A j \in at : j <= i].container

\* C14: a cycle has run docker ps and built the whole map before it makes
\* its first record, the map does not change while the loop runs and the
\* result is returned, and every record of the cycle carries the container
\* the complete map gives for its port.
C14_MapBuiltBeforeLookups ==
    /\ [](portMap # <<>> =>
            /\ dockerOut.status # "notrun"
            /\ \A k \in 1..Len(portMap) :
                  portMap[k].dockerContainer =
                     ExpectedContainer(dockerOut, portMap[k].port))
    /\ [][pc = "loop" => dockerPorts' = dockerPorts]_vars

\* a cycle with two records, the one on a container port made first
C14_Witness ==
    /\ pc = "done"
    /\ Len(portMap) = 2
    /\ portMap[1].dockerContainer = "web"
    /\ portMap[2].dockerContainer = NoValue
    /\ 3000 \in DOMAIN dockerPorts

\* the module names the records' commands carry after "uvicorn"
Modules == {wMainApp, wMyApp}

\* C15: the launch command of an accepted Uvicorn restart runs uvicorn in
\* the record's working directory with the module named in the record's
\* command, the port typed into the form and --reload exactly if reload is
\* enabled.
C15_UvicornLaunchCommand ==
    (form = "FastAPI" /\ launched # <<>>) =>
        LET c == launched[1] IN
        /\ c.run = "uvicorn"
        /\ c.cwd = info.cwd
        /\ \A m \in Modules :
              Contains(info.command, wUvicorn \o SP \o m) => c.module = m
        /\ c.port = parseInt(newPort).val
        /\ c.port # info.port
        /\ c.flag = (IF optFlag THEN "--reload" ELSE "")

\* a launch for "python uvicorn my:app" on port 8080 with reload disabled
C15_Witness ==
    /\ form = "FastAPI"
    /\ launched # <<>>
    /\ info.command = wPython \o SP \o wUvicorn \o SP \o wMyApp
    /\ newPort = t8080
    /\ ~optFlag
    /\ launched[1].module = wMyApp
    /\ launched[1].port = 8080
    /\ launched[1].flag = ""

\* the steps of a complete workflow, in order
StepsOf(f) ==
    IF f = "SvelteKit" THEN <<"kill", "launch", "success", "revalidate">>
    ELSE <<"kill", "launch", "success", "onRestart", "pop">>

\* C17: the steps taken so far are an initial part of kill, launch, success,
\* refresh; a launch was preceded by a kill attempt that has returned; after
\* the grace delay all steps have been taken; and the launch follows a kill
\* attempt that failed as it follows one that succeeded.
C17_StepsInOrder ==
    /\ [](form # "none" =>
            /\ Len(events) <= Len(StepsOf(form))
            /\ events = SubSeq(StepsOf(form), 1, Len(events)))
    /\ [](launched # <<>> => (killed # "none" /\ events[1] = "kill"))
    /\ [](rpc = "confirmed" => events = StepsOf(form))
    /\ (killed = "failed") ~> (launched # <<>>)
    /\ (killed = "ok") ~> (launched # <<>>)

\* a preview whose kill attempt failed, complete
C17_Witness ==
    /\ form = "SvelteKit"
    /\ killed = "failed"
    /\ rpc = "confirmed"
    /\ events = <<"kill", "launch", "success", "revalidate">>

\* C18: a workflow is under way only for a record with a working directory,
\* and the launch command runs in that directory.
C18_LaunchInOwnDirectory ==
    /\ rpc # "list" => info.cwd # NoCwd
    /\ launched # <<>> => launched[1].cwd = info.cwd

\* a launch issued in the record's directory
C18_Witness ==
    /\ launched # <<>>
    /\ info.cwd = "/srv/web"
    /\ launched[1].cwd = "/srv/web"

\* the ports the lines of a widget listing name
MenuPortsListed(ls) ==
    {ls[i].port : i \in {k \in 1..Len(ls) : ~ls[k].short /\ ls[k].port > 0}}

\* C16 as stated: the widget's list has one entry per port, and the count it
\* shows is the number of distinct listening ports.
C16_OneEntryPerPort ==
    (mpc = "done" /\ mOutput.ok) =>
        /\ \A i, j \in 1..Len(mResult) : mResult[i].port = mResult[j].port => i = j
        /\ MenuCount(mResult) = Cardinality(MenuPortsListed(mOutput.lines))

\* port p is in the stored list st
StoredIn(st, p) == Includes(getHiddenPorts(st), p)
\* a record of the list listens on port p
Listening(p) == \E k \in 1..Len(allPorts) : allPorts[k].port = p
\* call o hands its list to the store in this step
WriteStepOf(o) == ops[o].pc = "read" /\ ops'[o].pc = "written"

\* C12 as stated: the store changes only in the write of a hide or unhide
\* call, and a stored port without a listener leaves the store only in the
\* write of an unhide call for that port.
C12_OnlyHideAndUnhide ==
    [][/\ store' # store => \E o \in Ops : WriteStepOf(o)
       /\ \A p \in ViewPorts :
            (StoredIn(store, p) /\ ~Listening(p) /\ ~StoredIn(store', p)) =>
               \E o \in Ops : /\ WriteStepOf(o)
                              /\ ops[o].kind = "unhide"
                              /\ ops[o].port = p]_vars

\* C12, amended: the store changes only in the write of a hide or unhide
\* call; a stored port, with or without a listener, leaves the store only in
\* the write of an unhide call for that port or in the write of a call that
\* read the list before another call wrote it.
C12_OnlyHideUnhideWrites ==
    [][/\ store' # store => \E o \in Ops : WriteStepOf(o)
       /\ \A p \in ViewPorts :
            (StoredIn(store, p) /\ ~StoredIn(store', p)) =>
               \E o \in Ops : /\ WriteStepOf(o)
                              /\ \/ ops[o].kind = "unhide" /\ ops[o].port = p
                                 \/ ops[o].missed > 0]_vars

\* port 3000 was hidden, its listener has gone, and it is still stored
C12_Witness ==
    /\ lastChange.kind = "hide"
    /\ lastChange.port = 3000
    /\ StoredIn(store, 3000)
    /\ allPorts # <<>>
    /\ ~Listening(3000)

\* the change [kind, port] is in the stored list st
Present(kind, port, st) == StoredIn(st, port) = (kind = "hide")

\* C13: a call that writes without having missed a write (it read after the
\* write before it: no overlap) leaves that earlier change and its own in
\* the store; a call that writes after exactly one write it missed (both
\* calls read before either wrote), for a different port, leaves its own
\* change in the store and the other call's change is gone.
C13_LostUpdate ==
    [][\A o \in Ops :
          (WriteStepOf(o) /\ lastChange.kind # "none"
                          /\ lastChange.port # ops[o].port) =>
             /\ Present(ops[o].kind, ops[o].port, store')
             /\ ops[o].missed = 0 =>
                   Present(lastChange.kind, lastChange.port, store')
             /\ (ops[o].missed = 1 /\ lastChange.effective) =>
                   ~Present(lastChange.kind, lastChange.port, store')]_vars

\* two hides that both read the empty list: the write of 5000 came second
\* and port 3000, written first, is no longer stored
C13_Witness ==
    /\ lastChange.kind = "hide"
    /\ lastChange.port = 5000
    /\ lastChange.missed = 1
    /\ \E o \in Ops : /\ ops[o].pc = "written"
                      /\ ops[o].kind = "hide"
                      /\ ops[o].port = 3000
    /\ StoredIn(store, 5000)
    /\ ~StoredIn(store, 3000)

\* C19: the stored list never holds a port twice; a hide call that read a
\* list holding its port ends without changing the store; after the write of
\* an unhide call its port is not in the stored list.
C19_NoDuplicateStored ==
    /\ [](\A i, j \in 1..Len(getHiddenPorts(store)) :
             getHiddenPorts(store)[i] = getHiddenPorts(store)[j] => i = j)
    /\ [][\A o \in Ops :
            /\ (/\ ops[o].pc = "read"
                /\ ops[o].kind = "hide"
                /\ Includes(ops[o].cur, ops[o].port)
                /\ ops'[o].pc # "read") => store' = store
            /\ (WriteStepOf(o) /\ ops[o].kind = "unhide") =>
                  ~StoredIn(store', ops[o].port)]_vars

\* two overlapping hide calls for a port that is stored already, one of
\* which read the list holding it
C19_Witness ==
    /\ store # <<>>
    /\ Len(store[1]) = 2
    /\ \E o, x \in Ops :
          /\ o # x
          /\ ops[o].pc = "read" /\ ops[o].kind = "hide"
          /\ Includes(ops[o].cur, ops[o].port)
          /\ ops[x].pc = "read" /\ ops[x].kind = "hide"
          /\ ops[x].port = ops[o].port

\* number of places of list that hold record r
CountIn(list, r) == Cardinality({i \in 1..Len(list) : list[i] = r})

\* C20: every discovered record is in exactly one of the two sections of the
\* visible list and the hidden view: in the hidden view if its port is in
\* the loaded hidden list, else in "Development Servers" if it is a dev
\* server and in "System & Apps" if not; the hidden count is the number of
\* discovered records whose port is in the loaded hidden list.
C20_ShownInOnePlace ==
    LET dev == DevPorts(allPorts, hiddenPorts)
        sys == SystemPorts(allPorts, hiddenPorts)
        hid == HiddenView(allPorts, hiddenPorts)
        isHidden(r) == hiddenPorts # <<>> /\ Includes(hiddenPorts[1], r.port)
    IN /\ \A k \in 1..Len(allPorts) :
            LET r == allPorts[k] IN
            /\ CountIn(dev, r) + CountIn(sys, r) + CountIn(hid, r) = 1
            /\ CountIn(hid, r) = 1 <=> isHidden(r)
            /\ CountIn(dev, r) = 1 <=> (~isHidden(r) /\ r.flags.isDevServer)
       /\ Len(dev) + Len(sys) + Len(hid) = Len(allPorts)
       /\ HiddenCount(allPorts, hiddenPorts) =
             Cardinality({k \in 1..Len(allPorts) : isHidden(allPorts[k])})

\* both ports are in the loaded hidden list, only 3000 has a listener: one
\* record in the hidden view, a hidden count of one
C20_Witness ==
    /\ hiddenPorts # <<>>
    /\ Len(hiddenPorts[1]) = 2
    /\ Len(allPorts) = 1
    /\ allPorts[1].port = 3000
    /\ HiddenCount(allPorts, hiddenPorts) = 1
    /\ Len(HiddenView(allPorts, hiddenPorts)) = 1

====
